---- MODULE Spec2Model ----
(***************************************************************************)
(* Model of take_screenshot.py: the coroutine run() drives a headless      *)
(* browser through a linear sequence of awaited Playwright calls with one  *)
(* branch (login button present / absent) and writes one screenshot file.  *)
(* Every await is one action.  The dashboard, the browser engine and the   *)
(* file system are the environment: env says, for the current run, which   *)
(* awaited call raises and whether the login button is rendered.           *)
(* The script is started MaxRuns times in succession (asyncio.run(run())). *)
(***************************************************************************)
EXTENDS Naturals, Sequences, FiniteSets, TLC

VARIABLES
    pc,         \* position of the coroutine run()
    exc,        \* exception in flight / that ended the run, "none" if none
    status,     \* "idle", "running", "ok" (run returned), "failed" (run raised)
    pwActive,   \* the async_playwright() context is entered
    browser,    \* local variable browser: "none", "open", "closed"
    page,       \* local variable page: "none", "open"
    login_btn,  \* local variable login_btn: "unset", "None", "handle"
    calls,      \* Playwright calls issued by the current run, in order
    disk,       \* file system: path -> image written there
    env,        \* environment of the current run
    run,        \* number of runs started so far
    disk0,      \* disk as it was when the current run started
    stable,     \* the environment of this run equals that of the previous run
    prevOk      \* the previous run returned normally

vars == <<pc, exc, status, pwActive, browser, page, login_btn, calls, disk,
          env, run, disk0, stable, prevOk>>

\* ---------------------------------------------------------------- bounds
MaxRuns == 2

\* ------------------------------------------------------ program constants
URL == "http://localhost:3001"
AdminMarker == "text=Admin Dashboard"
LoginButton == "button:has-text('Access Dashboard')"
AdminIdInput == "input[placeholder='Admin ID']"
PasswordInput == "input[placeholder='Password']"
AdminId == "admin1"
AdminPassword == "password123"
TotalMarker == "text=Total Requests"
MarkerTimeout == 10000
PollDelay == 2000
OutPath == "C:\\Users\\Sazid\\.gemini\\antigravity\\brain\\41001d6e-5fca-4311-9d29-e0a7cb00349e\\manual_screenshot.png"

\* A path the script never names (used to state what is NOT written).
OtherPath == "manual_screenshot_2.png"

\* ------------------------------------------------------------ environment
\* One flag per awaited call that the library documents as able to raise,
\* plus loginBtn: does query_selector find the 'Access Dashboard' button.
Envs ==
    [launchOk : BOOLEAN, newPageOk : BOOLEAN, gotoOk : BOOLEAN,
     adminMarker : BOOLEAN, loginBtn : BOOLEAN, fillIdOk : BOOLEAN,
     fillPwOk : BOOLEAN, clickOk : BOOLEAN, totalMarker : BOOLEAN,
     shotOk : BOOLEAN]

\* ------------------------------------------------------------------ calls
\* A call with the keyword arguments the script passes (defaults otherwise).
Call(op, target, value, timeout) ==
    [op |-> op, target |-> target, value |-> value, timeout |-> timeout,
     full_page |-> FALSE]

LaunchCall == Call("launch", "headless", "", 0)
NewPageCall == Call("new_page", "", "", 0)
GotoCall == Call("goto", URL, "", 0)
WaitAdminCall == Call("wait_admin", AdminMarker, "", MarkerTimeout)
ProbeCall == Call("probe", LoginButton, "", 0)
FillIdCall == Call("fill_id", AdminIdInput, AdminId, 0)
FillPwCall == Call("fill_pw", PasswordInput, AdminPassword, 0)
ClickCall == Call("click", LoginButton, "", 0)
WaitTotalCall == Call("wait_total", TotalMarker, "", MarkerTimeout)
DelayCall == Call("delay", "", "", PollDelay)

ScreenshotArgsFullPage == [path |-> OutPath, full_page |-> TRUE]
ScreenshotArgsPerRun ==
    [path |-> IF run = 1 THEN OutPath ELSE OtherPath, full_page |-> FALSE]
\* page.screenshot(path=...): full_page is not passed, Playwright's default
\* is False (the visible viewport).
ScreenshotArgs == [path |-> OutPath, full_page |-> FALSE]

ScreenshotCall ==
    [op |-> "screenshot", target |-> ScreenshotArgs.path, value |-> "",
     timeout |-> 0, full_page |-> ScreenshotArgs.full_page]
CloseCall == Call("close", "", "", 0)

\* The file system after writing image img at path (create or overwrite).
WriteFile(d, path, img) ==
    [p \in (DOMAIN d) \cup {path} |-> IF p = path THEN img ELSE d[p]]

\* ------------------------------------------------------------ control flow
AwaitSwallow(c, ok, err, next) ==
    /\ calls' = Append(calls, c)
    /\ pc' = next
    /\ exc' = exc
\* "await <call>": the call is issued; it returns and run() goes on to next,
\* or it raises err, which nothing in run() catches: control leaves the
\* body of the async with block.
Await(c, ok, err, next) ==
    /\ calls' = Append(calls, c)
    /\ IF ok
         THEN pc' = next /\ exc' = exc
         ELSE pc' = "aexit" /\ exc' = err

NextAfterProbeAlwaysLogin(btn) == "fill_id"
NextAfterProbeDelayInBranch(btn) ==
    IF btn = "handle" THEN "fill_id" ELSE "screenshot"
\* "if login_btn:" the branch on the probe's optional handle.
NextAfterProbe(btn) == IF btn = "handle" THEN "fill_id" ELSE "delay"

\* ---------------------------------------------------------------- Init
Init ==
    /\ pc = "start"
    /\ exc = "none"
    /\ status = "idle"
    /\ pwActive = FALSE
    /\ browser = "none"
    /\ page = "none"
    /\ login_btn = "unset"
    /\ calls = <<>>
    /\ disk \in {<<>>, (OutPath :> [run |-> 0, full_page |-> FALSE])}
    /\ env \in Envs
    /\ run = 0
    /\ disk0 = disk
    /\ stable = FALSE
    /\ prevOk = FALSE

\* --------------------------------------------------------------- actions
\* asyncio.run(run()): the script is started (again); locals are fresh.
StartRun ==
    /\ pc \in {"start", "done"}
    /\ run < MaxRuns
    /\ \E e \in (IF run = 0 THEN {env} ELSE Envs) :
          /\ env' = e
          /\ stable' = (run >= 1 /\ e = env)
    /\ prevOk' = (status = "ok")
    /\ run' = run + 1
    /\ disk0' = disk
    /\ pc' = "enter"
    /\ exc' = "none"
    /\ status' = "running"
    /\ browser' = "none"
    /\ page' = "none"
    /\ login_btn' = "unset"
    /\ calls' = <<>>
    /\ UNCHANGED <<pwActive, disk>>

\* async with async_playwright() as p:   (__aenter__)
Enter ==
    /\ pc = "enter"
    /\ pwActive' = TRUE
    /\ pc' = "launch"
    /\ UNCHANGED <<exc, status, browser, page, login_btn, calls, disk, env,
                   run, disk0, stable, prevOk>>

Launch ==
    /\ pc = "launch"
    /\ Await(LaunchCall, env.launchOk, "Error", "new_page")
    /\ browser' = IF env.launchOk THEN "open" ELSE browser
    /\ UNCHANGED <<status, pwActive, page, login_btn, disk, env, run, disk0,
                   stable, prevOk>>

NewPage ==
    /\ pc = "new_page"
    /\ Await(NewPageCall, env.newPageOk, "Error", "goto")
    /\ page' = IF env.newPageOk THEN "open" ELSE page
    /\ UNCHANGED <<status, pwActive, browser, login_btn, disk, env, run,
                   disk0, stable, prevOk>>

GotoIgnoreFailure ==
    /\ pc = "goto"
    /\ AwaitSwallow(GotoCall, env.gotoOk, "Error", "wait_admin")
    /\ UNCHANGED <<status, pwActive, browser, page, login_btn, disk, env,
                   run, disk0, stable, prevOk>>
Goto ==
    /\ pc = "goto"
    /\ Await(GotoCall, env.gotoOk, "Error", "wait_admin")
    /\ UNCHANGED <<status, pwActive, browser, page, login_btn, disk, env,
                   run, disk0, stable, prevOk>>

WaitAdminSwallow ==
    /\ pc = "wait_admin"
    /\ AwaitSwallow(WaitAdminCall, env.adminMarker, "TimeoutError", "probe")
    /\ UNCHANGED <<status, pwActive, browser, page, login_btn, disk, env,
                   run, disk0, stable, prevOk>>
WaitAdmin ==
    /\ pc = "wait_admin"
    /\ Await(WaitAdminCall, env.adminMarker, "TimeoutError", "probe")
    /\ UNCHANGED <<status, pwActive, browser, page, login_btn, disk, env,
                   run, disk0, stable, prevOk>>

\* login_btn = await page.query_selector(...): None when nothing matches.
Probe ==
    /\ pc = "probe"
    /\ calls' = Append(calls, ProbeCall)
    /\ login_btn' = IF env.loginBtn THEN "handle" ELSE "None"
    /\ pc' = NextAfterProbe(login_btn')
    /\ UNCHANGED <<exc, status, pwActive, browser, page, disk, env, run,
                   disk0, stable, prevOk>>

FillId ==
    /\ pc = "fill_id"
    /\ Await(FillIdCall, env.fillIdOk, "Error", "fill_pw")
    /\ UNCHANGED <<status, pwActive, browser, page, login_btn, disk, env,
                   run, disk0, stable, prevOk>>

FillPw ==
    /\ pc = "fill_pw"
    /\ Await(FillPwCall, env.fillPwOk, "Error", "click")
    /\ UNCHANGED <<status, pwActive, browser, page, login_btn, disk, env,
                   run, disk0, stable, prevOk>>

ClickNoWait ==
    /\ pc = "click"
    /\ Await(ClickCall, env.clickOk, "Error", "delay")
    /\ UNCHANGED <<status, pwActive, browser, page, login_btn, disk, env,
                   run, disk0, stable, prevOk>>
Click ==
    /\ pc = "click"
    /\ Await(ClickCall, env.clickOk, "Error", "wait_total")
    /\ UNCHANGED <<status, pwActive, browser, page, login_btn, disk, env,
                   run, disk0, stable, prevOk>>

WaitTotalSwallow ==
    /\ pc = "wait_total"
    /\ AwaitSwallow(WaitTotalCall, env.totalMarker, "TimeoutError", "delay")
    /\ UNCHANGED <<status, pwActive, browser, page, login_btn, disk, env,
                   run, disk0, stable, prevOk>>
WaitTotal ==
    /\ pc = "wait_total"
    /\ Await(WaitTotalCall, env.totalMarker, "TimeoutError", "delay")
    /\ UNCHANGED <<status, pwActive, browser, page, login_btn, disk, env,
                   run, disk0, stable, prevOk>>

\* await page.wait_for_timeout(2000): a blind delay, it has no failure signal.
Delay ==
    /\ pc = "delay"
    /\ calls' = Append(calls, DelayCall)
    /\ pc' = "screenshot"
    /\ UNCHANGED <<exc, status, pwActive, browser, page, login_btn, disk,
                   env, run, disk0, stable, prevOk>>

\* await page.screenshot(path=...): writes the image, or raises and writes
\* nothing.
Screenshot ==
    /\ pc = "screenshot"
    /\ Await(ScreenshotCall, env.shotOk, "Error", "close")
    /\ disk' = IF env.shotOk
                 THEN WriteFile(disk, ScreenshotArgs.path,
                                [run |-> run,
                                 full_page |-> ScreenshotArgs.full_page])
                 ELSE disk
    /\ UNCHANGED <<status, pwActive, browser, page, login_btn, env, run,
                   disk0, stable, prevOk>>

\* await browser.close(): the last statement of the async with body.
Close ==
    /\ pc = "close"
    /\ calls' = Append(calls, CloseCall)
    /\ browser' = "closed"
    /\ pc' = "aexit"
    /\ UNCHANGED <<exc, status, pwActive, page, login_btn, disk, env, run,
                   disk0, stable, prevOk>>

\* Leaving the async with block (__aexit__), normally or by an exception:
\* Playwright is stopped; the exception, if any, propagates out of run() and
\* asyncio.run(), and the process ends.
AExit ==
    /\ pc = "aexit"
    /\ pwActive' = FALSE
    /\ status' = IF exc = "none" THEN "ok" ELSE "failed"
    /\ pc' = "done"
    /\ UNCHANGED <<exc, browser, page, login_btn, calls, disk, env, run,
                   disk0, stable, prevOk>>

Next ==
    \/ StartRun
    \/ Enter
    \/ Launch
    \/ NewPage
    \/ Goto
    \/ WaitAdmin
    \/ Probe
    \/ FillId
    \/ FillPw
    \/ Click
    \/ WaitTotal
    \/ Delay
    \/ Screenshot
    \/ Close
    \/ AExit

Spec == Init /\ [][Next]_vars

\* ------------------------------------------------------------ trace helpers
Ops == [i \in 1..Len(calls) |-> calls[i].op]
Called(op) == \E i \in 1..Len(calls) : calls[i].op = op
Count(op) == Cardinality({i \in 1..Len(calls) : calls[i].op = op})
IndexOf(op) == CHOOSE i \in 1..Len(calls) : calls[i].op = op
IsPrefix(s, t) == Len(s) <= Len(t) /\ SubSeq(t, 1, Len(s)) = s
LastOp == IF calls = <<>> THEN "none" ELSE calls[Len(calls)].op
Ended == pc \in {"aexit", "done"}
\* Does the environment of this run let the call op return normally?
ReturnsOk(op) ==
    CASE op = "launch" -> env.launchOk
      [] op = "new_page" -> env.newPageOk
      [] op = "goto" -> env.gotoOk
      [] op = "wait_admin" -> env.adminMarker
      [] op = "fill_id" -> env.fillIdOk
      [] op = "fill_pw" -> env.fillPwOk
      [] op = "click" -> env.clickOk
      [] op = "wait_total" -> env.totalMarker
      [] op = "screenshot" -> env.shotOk
      [] OTHER -> TRUE
NoLoginOps ==
    <<"launch", "new_page", "goto", "wait_admin", "probe",
      "delay", "screenshot", "close">>
LoginOps ==
    <<"launch", "new_page", "goto", "wait_admin", "probe",
      "fill_id", "fill_pw", "click", "wait_total",
      "delay", "screenshot", "close">>
\* The current run wrote the output file.
WroteOutput ==
    run >= 1 /\ OutPath \in DOMAIN disk /\ disk[OutPath].run = run

\* ------------------------------------------------------------------ claims

\* C1 (as claimed): once the launch has succeeded, browser.close() has been
\* invoked exactly once when the run has ended, on every exit path.
C1_CloseOnceOnEveryExit ==
    (pc = "done" /\ browser # "none") => Count("close") = 1

\* C2: if the wait for 'Admin Dashboard' times out, the run ends as failed
\* with a TimeoutError, the wait is the last call issued (no probe, fill,
\* click, delay, screenshot) and the disk is as it was before the run.
C2_AdminTimeoutAborts ==
    (Called("wait_admin") /\ ~env.adminMarker) =>
        /\ LastOp = "wait_admin"
        /\ Ops = <<"launch", "new_page", "goto", "wait_admin">>
        /\ exc = "TimeoutError"
        /\ Ended
        /\ pc = "done" => status = "failed"
        /\ disk = disk0
C2_Witness ==
    /\ pc = "done" /\ status = "failed" /\ exc = "TimeoutError"
    /\ LastOp = "wait_admin" /\ ~env.adminMarker
    /\ OutPath \in DOMAIN disk

\* C3: if the button was found and clicked and the wait for 'Total Requests'
\* times out, the run ends as failed with a TimeoutError, without the delay
\* and without the screenshot: this run writes no file.
C3_TotalTimeoutAborts ==
    (login_btn = "handle" /\ Called("click") /\ env.clickOk
       /\ Called("wait_total") /\ ~env.totalMarker) =>
        /\ LastOp = "wait_total"
        /\ ~Called("delay") /\ ~Called("screenshot")
        /\ exc = "TimeoutError"
        /\ Ended
        /\ pc = "done" => status = "failed"
        /\ disk = disk0 /\ ~WroteOutput
C3_Witness ==
    /\ pc = "done" /\ status = "failed" /\ exc = "TimeoutError"
    /\ login_btn = "handle" /\ Called("click") /\ LastOp = "wait_total"

\* C4: when the marker appeared and the probe found no button, the run never
\* fills, clicks or waits for 'Total Requests'; the call after the probe is
\* the 2000 ms delay, then the screenshot; the absent button raises nothing,
\* and if the screenshot write succeeds the run returns normally with the
\* file written.
C4_NoLoginBranch ==
    (Called("probe") /\ ~env.loginBtn) =>
        /\ login_btn = "None"
        /\ ~Called("fill_id") /\ ~Called("fill_pw")
        /\ ~Called("click") /\ ~Called("wait_total")
        /\ IsPrefix(Ops, NoLoginOps)
        /\ LastOp = "probe" => (exc = "none" /\ pc = "delay")
        /\ Called("delay") => calls[IndexOf("delay")].timeout = 2000
        /\ (pc = "done" /\ env.shotOk) =>
              (status = "ok" /\ Ops = NoLoginOps /\ WroteOutput)
C4_Witness ==
    /\ pc = "done" /\ status = "ok" /\ login_btn = "None"
    /\ Ops = NoLoginOps /\ WroteOutput

\* C5: when the probe found the button, the calls after the probe are, in
\* this order and each once: fill 'Admin ID' with "admin1", fill 'Password'
\* with "password123", click, wait for 'Total Requests'; the screenshot is
\* requested only after that wait has succeeded.
C5_LoginBranchOrder ==
    (Called("probe") /\ env.loginBtn) =>
        /\ login_btn = "handle"
        /\ IsPrefix(Ops, LoginOps)
        /\ Called("fill_id") =>
              /\ calls[6].target = "input[placeholder='Admin ID']"
              /\ calls[6].value = "admin1"
        /\ Called("fill_pw") =>
              /\ calls[7].target = "input[placeholder='Password']"
              /\ calls[7].value = "password123"
        /\ Called("click") => (env.fillIdOk /\ env.fillPwOk)
        /\ Called("wait_total") =>
              /\ env.clickOk
              /\ calls[9].target = "text=Total Requests"
              /\ calls[9].timeout = 10000
        /\ \A op \in {"fill_id", "fill_pw", "click", "wait_total"} :
              Count(op) <= 1
        /\ (Called("delay") \/ Called("screenshot") \/ WroteOutput) =>
              /\ env.totalMarker
              /\ SubSeq(Ops, 6, 9) =
                    <<"fill_id", "fill_pw", "click", "wait_total">>
C5_Witness ==
    /\ pc = "done" /\ status = "ok" /\ login_btn = "handle"
    /\ Ops = LoginOps /\ WroteOutput

\* C6: if the launch or the navigation fails, the error propagates: the run
\* ends as failed, the failed call is the last and only call of its kind (no
\* retry), no marker wait, probe, delay or screenshot follows, and the disk
\* is untouched.
C6_LaunchOrGotoFailureAborts ==
    /\ (Called("launch") /\ ~env.launchOk) =>
          /\ Ops = <<"launch">>
          /\ exc = "Error" /\ Ended /\ browser = "none"
          /\ pc = "done" => status = "failed"
          /\ disk = disk0
    /\ (Called("goto") /\ ~env.gotoOk) =>
          /\ Ops = <<"launch", "new_page", "goto">>
          /\ calls[3].target = "http://localhost:3001"
          /\ exc = "Error" /\ Ended
          /\ pc = "done" => status = "failed"
          /\ disk = disk0
C6_Witness ==
    /\ pc = "done" /\ status = "failed" /\ LastOp = "goto" /\ ~env.gotoOk
C6_WitnessLaunch ==
    /\ pc = "done" /\ status = "failed" /\ LastOp = "launch"

\* C7: nothing is retried or caught: every call is issued at most once, in
\* program order, every call but the last has returned normally, and once a
\* call has raised it is the last call of the run, which ends as failed.
C7_NoRetryNoCatch ==
    /\ \A i, j \in 1..Len(calls) : calls[i].op = calls[j].op => i = j
    /\ IsPrefix(Ops, LoginOps) \/ IsPrefix(Ops, NoLoginOps)
    /\ \A i \in 1..Len(calls) : i < Len(calls) => ReturnsOk(calls[i].op)
    /\ (calls # <<>> /\ ~ReturnsOk(LastOp)) => (exc # "none" /\ Ended)
    /\ exc # "none" => (Ended /\ ~ReturnsOk(LastOp))
    /\ pc = "done" => (status = (IF exc = "none" THEN "ok" ELSE "failed"))
C7_Witness ==
    /\ pc = "done" /\ status = "failed" /\ LastOp = "fill_pw"
    /\ ~env.clickOk /\ ~env.shotOk

\* C8: whenever the screenshot is requested, on either branch, the 2000 ms
\* delay was issued exactly once, as the call immediately before it and
\* after the last marker wait of the branch.
C8_DelayBeforeScreenshot ==
    Called("screenshot") =>
        LET s == IndexOf("screenshot") IN
        /\ s > 1
        /\ calls[s - 1].op = "delay" /\ calls[s - 1].timeout = 2000
        /\ Count("delay") = 1
        /\ Called("wait_admin")
        /\ login_btn = "handle" => Called("wait_total")
        /\ \A j \in 1..Len(calls) :
              calls[j].op \in {"wait_admin", "wait_total"} => j < s - 1
C8_Witness ==
    /\ pc = "done" /\ status = "ok" /\ login_btn = "None" /\ WroteOutput
    /\ LastOp = "close" /\ Count("delay") = 1
C8_WitnessLogin ==
    /\ pc = "done" /\ status = "ok" /\ login_btn = "handle" /\ WroteOutput

\* C9: a run that follows a successful run in the same environment succeeds
\* too; it writes the same fixed path, overwriting the file, and the set of
\* files on disk is the one the first run left.
C9_SecondRunOverwrites ==
    (run >= 2 /\ stable /\ prevOk /\ pc = "done") =>
        /\ status = "ok"
        /\ OutPath \in DOMAIN disk0
        /\ DOMAIN disk = DOMAIN disk0
        /\ disk0[OutPath].run = run - 1
        /\ disk[OutPath].run = run
        /\ \A i \in 1..Len(calls) :
              calls[i].op = "screenshot" => calls[i].target = OutPath
C9_Witness ==
    /\ run >= 2 /\ stable /\ prevOk /\ pc = "done" /\ status = "ok"
    /\ DOMAIN disk = {OutPath}

\* C10 (as claimed): the screenshot is requested as a full-page capture.
C10_FullPageRequested ==
    \A i \in 1..Len(calls) :
        calls[i].op = "screenshot" => calls[i].full_page = TRUE

\* C10 (amended): the screenshot is requested with the path argument only;
\* full_page keeps its default, false (the visible viewport), and the image
\* written at the fixed output path is that viewport capture.
C10_ViewportRequested ==
    /\ \A i \in 1..Len(calls) :
          calls[i].op = "screenshot" =>
              /\ calls[i].full_page = FALSE
              /\ calls[i].target = OutPath
    /\ WroteOutput =>
          (disk[OutPath].full_page = FALSE /\ Called("screenshot"))
C10_Witness ==
    /\ Called("screenshot") /\ WroteOutput /\ pc = "done"

====
